---- MODULE Spec2Model ----
(***************************************************************************)
(* Model of APIClient (api_client.py): the adapter over the Ollama,        *)
(* LM Studio and Koboldcpp HTTP APIs.  The three operations are            *)
(* get_available_models, generate_chat_response (a generator) and          *)
(* unload_model.  The server is the environment: it chooses the listing    *)
(* response, each streamed line, and where the transport fails.            *)
(***************************************************************************)
EXTENDS Naturals, Sequences, FiniteSets, TLC

VARIABLES
    provider,   \* self.provider, fixed at construction
    messages,   \* the caller's message list (the object passed to each call)
    orig,       \* the message list as the caller first built it
    images,     \* the images argument of the chat call in progress
    pc,         \* position of the generator of generate_chat_response
    conn,       \* the HTTP response/connection of the streaming POST
    received,   \* the lines response.iter_lines() has delivered so far
    raw,        \* raw_response_for_debugging
    fragments,  \* what the generator has yielded so far
    failed,     \* which transport failure the call met, if any
    sent,       \* the POST requests issued: images argument and payload
    ret         \* outcome of the last get_available_models / unload_model

vars == <<provider, messages, orig, images, pc, conn, received, raw,
          fragments, failed, sent, ret>>

----------------------------------------------------------------------------
(* Bounds *)

MaxLines == 3       \* lines delivered by one streamed response
MaxModels == 2      \* entries of one model-listing response
MaxCalls == 2       \* chat calls issued on one message list

----------------------------------------------------------------------------
(* Providers and the model-listing operation *)

Providers == {"Ollama", "LM Studio", "Koboldcpp"}

Absent == "<absent>"    \* a key the JSON object does not have

ModelIds == {"m1", "m2"}
Owners == {Absent, "koboldcpp", "KoboldCpp", "openai"}
Entries == [id : ModelIds \cup {Absent}, owned_by : Owners]

\* str.lower() on the owner strings of the model
Lower(s) == IF s = "KoboldCpp" THEN "koboldcpp" ELSE s

\* model.get('owned_by', '')
GetOwnedBy(m) == IF m.owned_by = Absent THEN "" ELSE m.owned_by

SeqsUpTo(S, n) == UNION {[1..k -> S] : k \in 0..n}

\* What the GET to the models endpoint can produce.
ListResponses ==
    [status : {"transport", "notjson"}, object : {Absent}, data : {<<>>}]
    \cup [status : {"ok"}, object : {"list", "other", Absent},
          data : SeqsUpTo(Entries, MaxModels)]

\* any('owned_by' in m and m['owned_by'] == 'koboldcpp' for m in data['data'])
AnyKoboldOwned(data) ==
    \E i \in 1..Len(data) :
        data[i].owned_by # Absent /\ data[i].owned_by = "koboldcpp"

\* data.get('object') == 'list' and any(...)
WrongBackend(resp) == resp.object = "list" /\ AnyKoboldOwned(resp.data)

NotKobold(m) == Lower(GetOwnedBy(m)) # "koboldcpp"

KoboldOrUntagged(m) ==
    Lower(GetOwnedBy(m)) = "koboldcpp" \/ m.owned_by = Absent

\* [model['id'] for model in kept]: KeyError when a kept entry has no 'id'
Ids(kept) ==
    IF \E i \in 1..Len(kept) : kept[i].id = Absent
    THEN [out |-> "raise", ids |-> <<>>]
    ELSE [out |-> "return", ids |-> [i \in 1..Len(kept) |-> kept[i].id]]

Returned(ids) == [out |-> "return", ids |-> ids]

\* A mutated filter for the Ollama / LM Studio branch: keeps only tagged entries.
get_models_tagged_only(p, resp) ==
    IF p \in {"LM Studio", "Ollama"}
    THEN IF WrongBackend(resp) THEN Returned(<<>>)
         ELSE Ids(SelectSeq(resp.data,
                  LAMBDA m : NotKobold(m) /\ m.owned_by # Absent))
    ELSE IF p = "Koboldcpp"
    THEN Ids(SelectSeq(resp.data, KoboldOrUntagged))
    ELSE Returned(<<>>)

\* The body of the try block of get_available_models on a decoded response.
get_models_body(p, resp) ==
    IF p \in {"LM Studio", "Ollama"}
    THEN IF WrongBackend(resp) THEN Returned(<<>>)
         ELSE Ids(SelectSeq(resp.data, NotKobold))
    ELSE IF p = "Koboldcpp"
    THEN Ids(SelectSeq(resp.data, KoboldOrUntagged))
    ELSE Returned(<<>>)

\* get_available_models: RequestException covers the refused connection, the
\* timeout, the HTTP error status and (requests.exceptions.JSONDecodeError,
\* raised by response.json()) the body that is not JSON.
get_available_models(p, resp) ==
    IF resp.status \in {"transport", "notjson"}
    THEN Returned(<<>>)
    ELSE get_models_body(p, resp)

NoRet == [op |-> "none"]

----------------------------------------------------------------------------
(* unload_model *)

UnloadOutcomes == {"ok", "transport"}

unload_model(p, outcome) ==
    IF p # "Ollama"
    THEN [op |-> "unload", out |-> "return", status |-> "Unsupported",
          network |-> FALSE]
    ELSE IF outcome = "ok"
    THEN [op |-> "unload", out |-> "return", status |-> "success",
          network |-> TRUE]
    ELSE [op |-> "unload", out |-> "return", status |-> "error",
          network |-> TRUE]

----------------------------------------------------------------------------
(* Building the request payload of generate_chat_response *)

Str(t) == <<"str", t>>

UserMsg == [role |-> "user", content |-> Str("describe"), images |-> <<>>]
AssistantMsg == [role |-> "assistant", content |-> Str("ok"), images |-> <<>>]

\* Message lists a caller starts from.
InitialMessages == {<<UserMsg>>, <<AssistantMsg, UserMsg>>, <<UserMsg, AssistantMsg>>}

Files == {"cat.jpg"}                    \* the image files that can be read
NoImageArgs == {<<>>}
ImageArgs == {<<>>, <<"cat.jpg">>, <<"missing.jpg">>}

\* _encode_image: base64 of the file's bytes
_encode_image(path) == <<"b64", path>>

EncodeFails(imgs) == \E i \in 1..Len(imgs) : imgs[i] \notin Files

DataUri(b64) == <<"data:image/jpeg;base64,", b64>>

\* if images and messages and messages[-1]['role'] == 'user'
AttachesImages(msgs, imgs) ==
    imgs # <<>> /\ msgs # <<>> /\ msgs[Len(msgs)].role = "user"

\* The last message after the image branch ran on it (it is changed in place).
WithImages(p, last, imgs) ==
    IF p \in {"LM Studio", "Koboldcpp"}
    THEN [last EXCEPT !.content =
            <<"parts",
              <<<<"text", last.content>>>> \o
              [i \in 1..Len(imgs) |-> <<"image_url", DataUri(_encode_image(imgs[i]))>>]>>]
    ELSE [last EXCEPT !.images = [i \in 1..Len(imgs) |-> _encode_image(imgs[i])]]

\* The caller's list after lines 59-71.
PrepareMessages(p, msgs, imgs) ==
    IF AttachesImages(msgs, imgs)
    THEN [msgs EXCEPT ![Len(msgs)] = WithImages(p, msgs[Len(msgs)], imgs)]
    ELSE msgs

\* payload = {"model": model, "messages": messages, "stream": stream}
Payload(msgs) == [model |-> "m1", messages |-> msgs, stream |-> TRUE]

----------------------------------------------------------------------------
(* The streamed lines and how one line is handled *)

Contents == {"", "Hello", " world"}

\* A line: pre = it starts with 'data: '; k = what follows the prefix (or the
\* whole line when there is no prefix); c = the content value it carries.
\*   empty      zero-length line (iter_lines delivers b'')
\*   done       [DONE]            done_pad   [DONE] with spaces around it
\*   blank      white space only
\*   text       not JSON, no brace in it
\*   badbrace   not JSON, with a brace in it
\*   delta      {"choices":[{"delta":{"content":c}}]}
\*   message    {"message":{"content":c}}
\*   object     {}
Lines ==
    {[pre |-> FALSE, k |-> "empty", c |-> ""]}
    \cup [pre : {TRUE}, k : {"done", "done_pad", "blank", "text", "object"}, c : {""}]
    \cup [pre : {TRUE}, k : {"delta", "message"}, c : Contents]
    \cup [pre : {FALSE}, k : {"text", "badbrace", "object"}, c : {""}]
    \cup [pre : {FALSE}, k : {"message"}, c : Contents]
    \cup [pre : {FALSE}, k : {"delta"}, c : {"Hello"}]

\* The lines of the responses of the repeated-call specification.
ShortLines ==
    {[pre |-> TRUE, k |-> "done", c |-> ""],
     [pre |-> TRUE, k |-> "delta", c |-> "Hello"],
     [pre |-> TRUE, k |-> "message", c |-> "Hello"]}

\* decoded_line[6:].strip()
Strip(k) == IF k = "done_pad" THEN "done" ELSE IF k = "blank" THEN "" ELSE k

\* "{" in decoded_line
HasBrace(l) == l.k \in {"badbrace", "delta", "message", "object"}

\* json.loads succeeds
Decodes(k) == k \in {"delta", "message", "object"}

Yield(c) == [act |-> "yield", c |-> c]
Skip == [act |-> "skip", c |-> ""]
Break == [act |-> "break", c |-> ""]
DecodeError == [act |-> "decode_error", c |-> ""]
Raise == [act |-> "raise", c |-> ""]

\* A mutated filter: the content is yielded even when it is empty.
yield_always(c) == Yield(c)

\* if content: yield content
YieldIf(c) == IF c # "" THEN Yield(c) ELSE Skip

\* A mutated [DONE] test: the payload is compared before it is stripped.
is_done_unstripped(l) == l.k = "done"

\* if json_str == "[DONE]"
is_done(l) == Strip(l.k) = "done"

\* A mutated Koboldcpp branch without the inner try/except.
kobold_line_no_try(l) ==
    IF ~l.pre THEN Skip
    ELSE IF is_done(l) THEN Break
    ELSE IF Strip(l.k) = "" THEN Skip
    ELSE IF ~Decodes(Strip(l.k)) THEN DecodeError
    ELSE IF Strip(l.k) = "delta" THEN YieldIf(l.c)
    ELSE Raise

\* Lines 86-101: one non-empty line in the Koboldcpp loop.
kobold_line(l) ==
    IF ~l.pre THEN Skip
    ELSE IF is_done(l) THEN Break
    ELSE IF Strip(l.k) = "" THEN Skip
    ELSE IF ~Decodes(Strip(l.k)) THEN Skip          \* except Exception: continue
    ELSE IF Strip(l.k) = "delta" THEN YieldIf(l.c)
    ELSE Skip                                       \* KeyError, caught

\* chunk['choices'][0]['delta'].get('content', '') / chunk['message'].get('content', '')
data_content(p, l) ==
    IF p = "LM Studio"
    THEN IF Strip(l.k) = "delta" THEN YieldIf(l.c) ELSE Raise
    ELSE IF Strip(l.k) = "message" THEN YieldIf(l.c) ELSE Raise

\* chunk.get('message', {}).get('content', '')
fallback_content(l) == IF l.k = "message" THEN YieldIf(l.c) ELSE Skip

\* A mutated decode step: a line that does not decode is skipped.
decode_or_skip(l, ok) == IF Decodes(Strip(l.k)) THEN ok ELSE Skip

\* json.loads(...) followed by the use of the chunk
decode_then(l, ok) == IF Decodes(Strip(l.k)) THEN ok ELSE DecodeError

\* Lines 104-124: one non-empty line in the Ollama / LM Studio loop.
other_line(p, l) ==
    IF l.pre
    THEN IF is_done(l) THEN Break
         ELSE IF Strip(l.k) = "" THEN Skip
         ELSE decode_then(l, data_content(p, l))
    ELSE IF HasBrace(l) THEN decode_then(l, fallback_content(l))
    ELSE Skip

\* What the loop body does with a non-empty line.
handle_line(p, l) == IF p = "Koboldcpp" THEN kobold_line(l) ELSE other_line(p, l)

----------------------------------------------------------------------------
(* Fragments, the connection, and the generator's steps *)

TextFragment(c, n) == [kind |-> "text", c |-> c, raw |-> <<>>, at |-> n]
ConnError(n) == [kind |-> "conn_error", c |-> "", raw |-> <<>>, at |-> n]
\* raw_response_for_debugging or 'Response was empty.'
Diagnostic(r, n) == [kind |-> "decode_error", c |-> "", raw |-> r, at |-> n]

\* A mutated handler: the RequestException is swallowed, nothing is yielded.
swallow_request_exception(frs, n) == frs

\* except requests.exceptions.RequestException as e: yield ...
on_request_exception(frs, n) == Append(frs, ConnError(n))

\* A mutated exit: the response is not a context manager and stays open.
keep_open(c) == c

\* Leaving the with block: Response.__exit__ closes the connection.
exit_with(c) == IF c = "open" THEN "closed" ELSE c

PostOutcomes == {"ok", "refused", "status"}

Ended == {"done", "raised", "closed"}

InitWith(lists) ==
    /\ provider \in Providers
    /\ orig \in lists
    /\ messages = orig
    /\ images = <<>>
    /\ pc = "idle"
    /\ conn = "none"
    /\ received = <<>>
    /\ raw = <<>>
    /\ fragments = <<>>
    /\ failed = "none"
    /\ sent = <<>>
    /\ ret = NoRet

Init == InitWith({<<UserMsg>>})

InitCalls == InitWith(InitialMessages)

chatVars == <<images, pc, conn, received, raw, fragments, failed, sent>>

\* get_available_models(); ret is the value handed to the caller
ListModels ==
    /\ pc = "idle"
    /\ ret = NoRet
    /\ \E resp \in ListResponses :
         LET r == get_available_models(provider, resp)
         IN  ret' = [op |-> "list", resp |-> resp, out |-> r.out, ids |-> r.ids]
    /\ UNCHANGED <<provider, messages, orig, chatVars>>

\* unload_model(model_name)
UnloadModel ==
    /\ pc = "idle"
    /\ ret = NoRet
    /\ \E o \in UnloadOutcomes : ret' = unload_model(provider, o)
    /\ UNCHANGED <<provider, messages, orig, chatVars>>

\* generate_chat_response(model, messages, images): makes the generator; no
\* line of the body runs before the first next().
CallChat(imgs) ==
    /\ pc = "idle"
    /\ Len(sent) < MaxCalls
    /\ pc' = "created"
    /\ images' = imgs
    /\ ret' = NoRet
    /\ UNCHANGED <<provider, messages, orig, conn, received, raw, fragments,
                   failed, sent>>

\* First next(): lines 57-82, up to the start of the loop.
Start ==
    /\ pc = "created"
    /\ IF AttachesImages(messages, images) /\ EncodeFails(images)
       THEN \* open() raises before the try block is entered
            /\ pc' = "raised"
            /\ UNCHANGED <<messages, conn, fragments, failed, sent>>
       ELSE /\ messages' = PrepareMessages(provider, messages, images)
            /\ sent' = Append(sent, [images |-> images, payload |-> Payload(messages')])
            /\ \E o \in PostOutcomes :
                 CASE o = "ok" ->
                        /\ conn' = "open"
                        /\ pc' = "running"
                        /\ UNCHANGED <<fragments, failed>>
                   [] o = "refused" ->
                        \* requests.post raises: no response was made
                        /\ conn' = conn
                        /\ failed' = "connect"
                        /\ fragments' = on_request_exception(fragments, 0)
                        /\ pc' = IF fragments' # fragments THEN "yield_err" ELSE "done"
                   [] OTHER ->
                        \* raise_for_status raises inside the with block
                        /\ conn' = exit_with("open")
                        /\ failed' = "status"
                        /\ fragments' = on_request_exception(fragments, 0)
                        /\ pc' = IF fragments' # fragments THEN "yield_err" ELSE "done"
    /\ UNCHANGED <<provider, orig, images, received, raw, ret>>

\* The loop reads the next line of the response and handles it.
ReadLine(l) ==
    /\ pc = "running"
    /\ Len(received) < MaxLines
    /\ received' = Append(received, l)
    /\ IF l.k = "empty"
       THEN UNCHANGED <<raw, fragments, pc, conn>>      \* if line: is false
       ELSE LET r == handle_line(provider, l)
                n == Len(received')
            IN  /\ raw' = Append(raw, l)
                /\ CASE r.act = "yield" ->
                          /\ fragments' = Append(fragments, TextFragment(r.c, n))
                          /\ pc' = "yield_text"
                          /\ conn' = conn
                     [] r.act = "skip" ->
                          UNCHANGED <<fragments, pc, conn>>
                     [] r.act = "break" ->
                          /\ pc' = "done"
                          /\ conn' = exit_with(conn)
                          /\ fragments' = fragments
                     [] r.act = "decode_error" ->
                          /\ conn' = exit_with(conn)
                          /\ fragments' = Append(fragments, Diagnostic(raw', n))
                          /\ pc' = "yield_err"
                     [] OTHER ->
                          /\ conn' = exit_with(conn)
                          /\ pc' = "raised"
                          /\ fragments' = fragments
    /\ UNCHANGED <<provider, messages, orig, images, failed, sent, ret>>

\* iter_lines() is exhausted: the loop and the with block end.
EndOfStream ==
    /\ pc = "running"
    /\ pc' = "done"
    /\ conn' = exit_with(conn)
    /\ UNCHANGED <<provider, messages, orig, images, received, raw, fragments,
                   failed, sent, ret>>

\* iter_lines() raises a RequestException (connection lost, read timeout).
StreamFails ==
    /\ pc = "running"
    /\ failed' = "read"
    /\ conn' = exit_with(conn)
    /\ fragments' = on_request_exception(fragments, Len(received))
    /\ pc' = IF fragments' # fragments THEN "yield_err" ELSE "done"
    /\ UNCHANGED <<provider, messages, orig, images, received, raw, sent, ret>>

\* The consumer asks for the next fragment.
Resume ==
    /\ pc \in {"yield_text", "yield_err"}
    /\ pc' = IF pc = "yield_text" THEN "running" ELSE "done"
    /\ UNCHANGED <<provider, messages, orig, images, conn, received, raw,
                   fragments, failed, sent, ret>>

\* The consumer abandons the sequence: close() on the generator (or its
\* finalisation) raises GeneratorExit at the yield it is suspended on.
CloseGen ==
    /\ pc \in {"created", "yield_text", "yield_err"}
    /\ pc' = "closed"
    /\ conn' = exit_with(conn)
    /\ UNCHANGED <<provider, messages, orig, images, received, raw, fragments,
                   failed, sent, ret>>

\* The caller is done with the sequence and may issue the next call.
Return ==
    /\ pc \in Ended
    /\ pc' = "idle"
    /\ images' = <<>>
    /\ conn' = "none"
    /\ received' = <<>>
    /\ raw' = <<>>
    /\ fragments' = <<>>
    /\ failed' = "none"
    /\ UNCHANGED <<provider, messages, orig, sent, ret>>

\* One call of each operation, every line the server can send.
Next ==
    \/ ListModels
    \/ UnloadModel
    \/ \E imgs \in NoImageArgs : CallChat(imgs)
    \/ Start
    \/ \E l \in Lines : ReadLine(l)
    \/ EndOfStream
    \/ StreamFails
    \/ Resume
    \/ CloseGen

Spec == Init /\ [][Next]_vars

\* Repeated chat calls on the same message list, with images.
NextCalls ==
    \/ \E imgs \in ImageArgs : CallChat(imgs)
    \/ Start
    \/ \E l \in ShortLines : ReadLine(l)
    \/ EndOfStream
    \/ StreamFails
    \/ Resume
    \/ CloseGen
    \/ Return

SpecCalls == InitCalls /\ [][NextCalls]_vars

----------------------------------------------------------------------------
(* Vocabulary of the properties, stated on the inputs and the outputs only *)

Listed == ret.op = "list" /\ ret.resp.status = "ok"

HasKoboldEntry(data) == \E i \in 1..Len(data) : data[i].owned_by = "koboldcpp"

\* no entry names Koboldcpp as its owner, in any letter case
NoKoboldEntry(data) ==
    \A i \in 1..Len(data) : data[i].owned_by \notin {"koboldcpp", "KoboldCpp"}

AllHaveId(data) == \A i \in 1..Len(data) : data[i].id # Absent

RECURSIVE IdsWhere(_, _)
IdsWhere(data, owners) ==
    IF data = <<>> THEN <<>>
    ELSE IF Head(data).owned_by \in owners
         THEN <<Head(data).id>> \o IdsWhere(Tail(data), owners)
         ELSE IdsWhere(Tail(data), owners)

DoneLine(l) == l.pre /\ l.k \in {"done", "done_pad"}

\* index of the first [DONE] line read, 0 when there is none
FirstDone ==
    IF \E i \in 1..Len(received) : DoneLine(received[i])
    THEN CHOOSE i \in 1..Len(received) :
            /\ DoneLine(received[i])
            /\ \A j \in 1..(i - 1) : ~DoneLine(received[j])
    ELSE 0

\* a data line of the shape the provider streams
WellFormed(l) ==
    l.pre /\ l.k = (IF provider = "Ollama" THEN "message" ELSE "delta")

RECURSIVE NonEmptyContents(_)
NonEmptyContents(ls) ==
    IF ls = <<>> THEN <<>>
    ELSE IF WellFormed(Head(ls)) /\ Head(ls).c # ""
         THEN <<Head(ls).c>> \o NonEmptyContents(Tail(ls))
         ELSE NonEmptyContents(Tail(ls))

BeforeDone(ls) ==
    IF FirstDone = 0 THEN ls ELSE SubSeq(ls, 1, FirstDone - 1)

TextOf(frs) == [i \in 1..Len(frs) |-> frs[i].c]

OfKind(kind) == {i \in 1..Len(fragments) : fragments[i].kind = kind}

\* a line the loop hands to the JSON decoder, and that is not JSON
FailsToDecode(l) ==
    /\ l.k \in {"text", "badbrace"}
    /\ l.pre \/ l.k = "badbrace"

RECURSIVE NonEmptyLines(_)
NonEmptyLines(ls) ==
    IF ls = <<>> THEN <<>>
    ELSE IF Head(ls).k = "empty" THEN NonEmptyLines(Tail(ls))
         ELSE <<Head(ls)>> \o NonEmptyLines(Tail(ls))

----------------------------------------------------------------------------
(* The claims *)

\* C1: on Ollama and LM Studio, a listing response with at least one entry whose
\* owned_by is "koboldcpp" gives the empty list, whatever its other fields are
\* (what list_models returns on such a response is never a non-empty list).
C1_KoboldEntryGivesEmpty ==
    (/\ Listed /\ provider \in {"Ollama", "LM Studio"}
     /\ HasKoboldEntry(ret.resp.data)
     /\ ret.out = "return")
        => ret.ids = <<>>

\* C2 as stated: for each of the three providers, a well-formed response without
\* a Koboldcpp-owned entry gives the id of every entry, whoever owns it.
C2_EveryProviderReturnsAllIds ==
    (Listed /\ AllHaveId(ret.resp.data) /\ NoKoboldEntry(ret.resp.data))
        => (ret.out = "return" /\ ret.ids = IdsWhere(ret.resp.data, Owners))

\* C2 amended: on such a response Ollama and LM Studio give the id of every
\* entry, in order; Koboldcpp gives the ids of the entries without owned_by.
C2_AllIdsOrUntaggedIds ==
    (Listed /\ AllHaveId(ret.resp.data) /\ NoKoboldEntry(ret.resp.data))
        => /\ ret.out = "return"
           /\ ret.ids = IF provider = "Koboldcpp"
                        THEN IdsWhere(ret.resp.data, {Absent})
                        ELSE IdsWhere(ret.resp.data, Owners)

C2_Witness ==
    /\ Listed /\ provider = "Koboldcpp"
    /\ Len(ret.resp.data) = 2
    /\ ret.resp.data[1].owned_by = "openai" /\ ret.resp.data[1].id = "m1"
    /\ ret.resp.data[2].owned_by = Absent /\ ret.resp.data[2].id = "m2"
    /\ ret.ids = <<"m2">>

\* C3: no failure of a call makes list_models, stream_chat or unload_model let
\* an exception escape to the caller.
C3_NoExceptionEscapes ==
    /\ pc # "raised"
    /\ ret.op \in {"list", "unload"} => ret.out # "raise"

\* C4: once a [DONE] line is read the sequence has ended and every fragment
\* came from a line read before it.
C4_NothingAfterDone ==
    FirstDone # 0 =>
        /\ pc = "done"
        /\ Len(received) = FirstDone
        /\ \A i \in 1..Len(fragments) : fragments[i].at < FirstDone

C4_Witness ==
    /\ FirstDone = 3
    /\ received[3].k = "done_pad"
    /\ Len(fragments) = 2

\* C5: on a successful response made of well-formed data lines (closed or not
\* by [DONE]) the fragments are, in arrival order, exactly the non-empty
\* content values of the lines.
C5_FragmentsAreContents ==
    (/\ failed = "none"
     /\ pc \notin {"idle", "created"}
     /\ \A i \in 1..Len(received) : WellFormed(received[i]) \/ DoneLine(received[i]))
        => /\ pc # "raised"
           /\ OfKind("text") = 1..Len(fragments)
           /\ TextOf(fragments) = NonEmptyContents(received)

C5_Witness ==
    /\ pc = "done" /\ failed = "none"
    /\ Len(received) = 3
    /\ \A i \in 1..3 : WellFormed(received[i])
    /\ received[2].c = ""
    /\ TextOf(fragments) = <<"Hello", " world">>

\* C6: on Ollama and LM Studio a line that fails to decode as JSON is the last
\* line read; exactly one diagnostic fragment carrying the raw text gathered so
\* far is yielded, it is the last fragment, and no exception escapes.
C6_DecodeFailureGivesOneDiagnostic ==
    (/\ provider \in {"Ollama", "LM Studio"}
     /\ \E i \in 1..Len(received) : FailsToDecode(received[i]))
        => /\ FailsToDecode(received[Len(received)])
           /\ \A i \in 1..(Len(received) - 1) : ~FailsToDecode(received[i])
           /\ pc \in {"yield_err", "done", "closed"}
           /\ OfKind("decode_error") = {Len(fragments)}
           /\ OfKind("conn_error") = {}
           /\ fragments[Len(fragments)].raw = NonEmptyLines(received)

C6_Witness ==
    /\ provider = "Ollama"
    /\ Len(received) = 3
    /\ ~received[3].pre /\ received[3].k = "badbrace"
    /\ Len(fragments) = 2
    /\ fragments[2].kind = "decode_error"
    /\ pc = "done"

\* a line that Koboldcpp's loop cannot use
Malformed(l) == l.k # "empty" /\ ~DoneLine(l) /\ ~(l.pre /\ l.k = "delta")

\* C7: on Koboldcpp a malformed line yields nothing and leaves the loop
\* running, and the fragments are the non-empty contents of the well-formed
\* lines read before [DONE], whatever malformed lines lie between them.
C7_KoboldSkipsMalformed ==
    /\ [](provider = "Koboldcpp" =>
            /\ pc # "raised"
            /\ OfKind("decode_error") = {}
            /\ TextOf(SelectSeq(fragments, LAMBDA f : f.kind = "text"))
                  = NonEmptyContents(BeforeDone(received)))
    /\ [][(/\ provider = "Koboldcpp"
           /\ received' # received
           /\ Len(received') > 0
           /\ Malformed(received'[Len(received')]))
              => (pc' = "running" /\ fragments' = fragments)]_vars

C7_Witness ==
    /\ provider = "Koboldcpp"
    /\ Len(received) = 3
    /\ received[1].pre /\ received[1].k = "text"
    /\ received[2].pre /\ received[2].k = "object"
    /\ received[3].pre /\ received[3].k = "delta" /\ received[3].c = "Hello"
    /\ TextOf(fragments) = <<"Hello">>

\* C8: a failed connection gives exactly one connection-error fragment, the
\* last of the sequence, after a single request; it is the only fragment when
\* nothing was read before the failure.
C8_OneConnectionError ==
    failed # "none" =>
        /\ pc \in {"yield_err", "done", "closed"}
        /\ OfKind("conn_error") = {Len(fragments)}
        /\ OfKind("decode_error") = {}
        /\ Len(sent) = 1
        /\ received = <<>> => Len(fragments) = 1

C8_Witness ==
    /\ failed = "read"
    /\ Len(fragments) = 2
    /\ fragments[1].kind = "text"
    /\ fragments[2].kind = "conn_error"
    /\ pc = "done"

\* C9: the connection is open while the loop runs and content fragments are
\* produced, and it is not open once the sequence has ended, has yielded an
\* error fragment or was abandoned by the consumer.
C9_ConnectionReleased ==
    /\ pc \in {"running", "yield_text"} => conn = "open"
    /\ pc \in Ended \cup {"yield_err"} => conn # "open"

C9_Witness ==
    /\ pc = "closed"
    /\ conn = "closed"
    /\ Len(fragments) = 2
    /\ fragments[2].kind = "text"

\* C10: a chat call leaves the caller's message list as it was, and calls with
\* the same images send the same payload.
C10_MessagesUnchanged ==
    /\ messages = orig
    /\ \A i, j \in 1..Len(sent) :
          sent[i].images = sent[j].images => sent[i].payload = sent[j].payload

====
